---- MODULE Spec2Model ----
(***************************************************************************)
(* Model of the SUAVE battery charge model LiNiMnCo_charge                 *)
(* (trunk/SUAVE/Methods/Power/Battery/Charge_Models/LiNiMnCo_charge.py),   *)
(* of its Thevenin-voltage integrator compute_thevenin_votlage, and of the *)
(* segment solver and mission sequencer that call it.                      *)
(*                                                                         *)
(* Numbers.  A numpy float is modelled as a fixed-point integer with       *)
(* Scale units per 1.0 (so 272.65 K is 272650), or as one of the values    *)
(* NaN, PInf, NInf.  Every arithmetic operator propagates NaN, 0*inf and   *)
(* inf-inf are NaN, and every comparison with NaN is false, as in          *)
(* IEEE-754.  A column vector (an N x 1 numpy array) is a sequence of      *)
(* length N.                                                               *)
(***************************************************************************)
EXTENDS Integers, Sequences, FiniteSets, TLC

VARIABLES
  battery,    \* the battery object: inputs, prior state and outputs
  numerics,   \* numerics.time.integrate and numerics.time.control_points
  locals,     \* locals of the last LiNiMnCo_charge call, as they stand at return
  thevenin,   \* arguments and result of the last direct compute_thevenin_votlage call
  mission,    \* the mission sequencer: segment index, per-segment results, status
  solver      \* the segment solver: iteration count, residual, status

vars == <<battery, numerics, locals, thevenin, mission, solver>>

----------------------------------------------------------------------------
(* Bounds of the model *)

\* number of control (collocation) points of a segment
NPts == 3

----------------------------------------------------------------------------
(* Floating point *)

Scale == 1000
NaN == -2000000000
PInf == 1999999999
NInf == -1999999999

isnan(x) == x = NaN
isinf(x) == x = PInf \/ x = NInf
isfinite(x) == ~isnan(x) /\ ~isinf(x)

Abs(x) == IF x < 0 THEN -x ELSE x
Sign(x) == IF x < 0 THEN -1 ELSE 1
Inf(sign) == IF sign < 0 THEN NInf ELSE PInf

FNeg(a) == IF isnan(a) THEN NaN ELSE IF isinf(a) THEN Inf(-Sign(a)) ELSE -a
FAbs(a) == IF isnan(a) THEN NaN ELSE IF isinf(a) THEN PInf ELSE Abs(a)

\* inf + (-inf) is NaN
FAdd(a, b) ==
  IF isnan(a) \/ isnan(b) THEN NaN
  ELSE IF isinf(a) THEN (IF isinf(b) /\ b # a THEN NaN ELSE a)
  ELSE IF isinf(b) THEN b
  ELSE a + b
FSub(a, b) == FAdd(a, FNeg(b))

\* a*b of two fixed-point numbers, split so that no intermediate leaves 32
\* bits; 0*inf is NaN
FMul(a, b) ==
  IF isnan(a) \/ isnan(b) THEN NaN
  ELSE IF isinf(a) \/ isinf(b)
       THEN (IF a = 0 \/ b = 0 THEN NaN ELSE Inf(Sign(a) * Sign(b)))
  ELSE LET x == Abs(a)
           y == Abs(b)
       IN  Sign(a) * Sign(b) * ((x \div Scale) * y + ((x % Scale) * y) \div Scale)

\* a/b of two fixed-point numbers; 0/0 and inf/inf are NaN, x/0 is +-inf
FDiv(a, b) ==
  IF isnan(a) \/ isnan(b) THEN NaN
  ELSE IF isinf(a) THEN (IF isinf(b) THEN NaN ELSE Inf(Sign(a) * Sign(b)))
  ELSE IF isinf(b) THEN 0
  ELSE IF b = 0 THEN (IF a = 0 THEN NaN ELSE Inf(Sign(a)))
  ELSE LET x == Abs(a)
           y == Abs(b)
       IN  Sign(a) * Sign(b) * ((x \div y) * Scale + ((x % y) * Scale) \div y)

\* a fixed-point number times, or divided by, a positive plain integer (a
\* count, 96485)
FScale(a, k) == IF isfinite(a) THEN a * k ELSE a
FDivInt(a, k) == IF isfinite(a) THEN Sign(a) * (Abs(a) \div k) ELSE a

\* comparisons: false when either side is NaN
FLt(a, b) == ~isnan(a) /\ ~isnan(b) /\ a < b
FGt(a, b) == ~isnan(a) /\ ~isnan(b) /\ a > b

Idx == 1..NPts

\* np.any(np.isnan(v))
AnyNaN(v) == \E i \in DOMAIN v : isnan(v[i])

RECURSIVE SumTo(_, _)
SumTo(v, k) == IF k = 0 THEN 0 ELSE FAdd(SumTo(v, k - 1), v[k])

\* np.dot(I, v): row i is sum_j I[i][j]*v[j]; 0*NaN is NaN, so a NaN in v
\* reaches every row
dot(I, v) == [i \in DOMAIN I |-> SumTo([j \in DOMAIN v |-> FMul(I[i][j], v[j])], Len(v))]

\* np.max(v): NaN if any element is NaN
RECURSIVE MaxTo(_, _)
MaxTo(v, k) ==
  IF k = 1 THEN v[1]
  ELSE LET m == MaxTo(v, k - 1)
       IN  IF isnan(m) \/ isnan(v[k]) THEN NaN ELSE IF v[k] > m THEN v[k] ELSE m
np_max(v) == MaxTo(v, Len(v))

----------------------------------------------------------------------------
(* Elementary functions on fixed-point numbers: np.exp, np.log, np.sqrt, power *)

\* e^n for n = 1..8, in fixed point
EPowers == <<2718, 7389, 20086, 54598, 148413, 403429, 1096633, 2980958>>

\* Taylor series of e^f for 0 <= f < 1: term k is the previous one times f/k
RECURSIVE ExpSeries(_, _, _, _)
ExpSeries(f, k, term, acc) ==
  IF k > 8 \/ term = 0 THEN acc
  ELSE LET t == (term * f) \div (Scale * k)
       IN  ExpSeries(f, k + 1, t, acc + t)

\* e^x for finite x >= 0 (the fixed-point range ends above e^9)
ExpPos(x) ==
  LET n == x \div Scale
      f == ExpSeries(x % Scale, 1, Scale, Scale)
  IN  IF n = 0 THEN f
      ELSE IF n > 8 THEN PInf
      ELSE FMul(EPowers[n], f)

\* np.exp
exp(x) ==
  IF isnan(x) THEN NaN
  ELSE IF x = PInf THEN PInf
  ELSE IF x = NInf THEN 0
  ELSE IF x >= 0 THEN ExpPos(x)
  ELSE IF -x >= 9 * Scale THEN 0
  ELSE (Scale * Scale) \div ExpPos(-x)

\* np.log by bisection on exp: the largest y in [lo, hi] with exp(y) <= x
RECURSIVE LogBisect(_, _, _)
LogBisect(x, lo, hi) ==
  IF hi - lo <= 1 THEN lo
  ELSE LET mid == (lo + hi) \div 2
       IN  IF exp(mid) <= x THEN LogBisect(x, mid, hi) ELSE LogBisect(x, lo, mid)

\* np.log: NaN for a negative argument, -inf for 0
log(x) ==
  IF isnan(x) \/ x < 0 THEN NaN
  ELSE IF x = 0 THEN NInf
  ELSE IF x = PInf THEN PInf
  ELSE LogBisect(x, -7 * Scale, 9 * Scale)

\* x ** y for y > 0: NaN for a negative x
pow(x, y) ==
  IF isnan(x) \/ isnan(y) \/ x < 0 THEN NaN
  ELSE exp(FMul(y, log(x)))

\* np.sqrt
RECURSIVE SqrtBisect(_, _, _)
SqrtBisect(x, lo, hi) ==
  IF hi - lo <= 1 THEN lo
  ELSE LET mid == (lo + hi) \div 2
       IN  IF FMul(mid, mid) <= x THEN SqrtBisect(x, mid, hi) ELSE SqrtBisect(x, lo, mid)
sqrt(x) ==
  IF isnan(x) \/ x < 0 THEN NaN
  ELSE IF x = PInf THEN PInf
  ELSE SqrtBisect(x, 0, 1000 * Scale)

----------------------------------------------------------------------------
(* External collaborators of the battery model *)

\* battery.discharge_performance_map.Voltage: the discharge response surface,
\* a function of (cell current [A], temperature [deg C], depth of discharge)
Voltage(pt) ==
  FAdd(FSub(FSub(4100, FMul(1200, pt[3])), FMul(20, pt[1])),
       FMul(2, FSub(pt[2], 25 * Scale)))

\* battery.cooling_fluid.kinematic_viscosity_fit and prandlt_number_fit:
\* fits in the temperature [deg C] of the cooling fluid
nu_fit(T) == FAdd(13, FDivInt(T, 10 * Scale))
Pr_fit(T) == FSub(720, FDivInt(T, 5 * Scale))

\* Units.hr
Units_hr == 3600

\* scipy.integrate.cumtrapz(y, x = x): the N-1 cumulative trapezoid sums
RECURSIVE cumtrapz(_, _, _)
cumtrapz(y, x, k) ==
  IF k = 0 THEN 0
  ELSE FAdd(cumtrapz(y, x, k - 1),
            FDivInt(FMul(FSub(x[k + 1], x[k]), FAdd(y[k], y[k + 1])), 2))

----------------------------------------------------------------------------
(* compute_thevenin_votlage and its ODE *)

\* model(z, t, I_cell, C_Th, R_Th): the right-hand side dVth/dt
model(z, t, I_cell, C_Th, R_Th) ==
  LET V_th == z[1]
      dVth_dt == FSub(FDiv(I_cell, C_Th), FDiv(V_th, FMul(R_Th, C_Th)))
  IN  <<dVth_dt>>

\* scipy.integrate.odeint(model, y0, t, args): the solution of the initial
\* value problem z(t[0]) = y0 sampled at every t[k].  The right-hand side is
\* linear with constant coefficients, so the solution odeint converges to is
\* z(t) = I*R + (y0 - I*R) * exp(-(t - t[0]) / (R*C)).
odeint(y0, t, I_cell, C_Th, R_Th) ==
  LET V_inf == FMul(I_cell, R_Th)
      tau == FMul(R_Th, C_Th)
  IN  [k \in DOMAIN t |->
        <<FAdd(V_inf, FMul(FSub(y0, V_inf), exp(FNeg(FDiv(FSub(t[k], t[1]), tau)))))>>]

compute_thevenin_votlage(V_th0, I_cell, C_Th, R_Th, nmr) ==
  LET t == nmr.control_points
  IN  [i \in DOMAIN t |->
        IF i = 1 THEN V_th0                                       \* x[0] = V_th0
        ELSE LET z  == odeint(V_th0, t, I_cell[i], C_Th[i], R_Th[i])
                 z0 == z[2]                                        \* z0 = z[1]
             IN  z0[1]]                                            \* x[i] = z0[0]

----------------------------------------------------------------------------
(* LiNiMnCo_charge, step by step *)

\* a Python bool used as a number
BoolAsFloat(b) == IF b THEN Scale ELSE 0

\* x[x < lo] = lo ; x[x > hi] = hi
Clamp(x, lo, hi) == IF FLt(x, lo) THEN lo ELSE IF FGt(x, hi) THEN hi ELSE x

\* SOC[SOC < 0.] = 0. ; SOC[SOC > 1.] = 1.
ClampSOC(SOC) == [i \in DOMAIN SOC |-> Clamp(SOC[i], 0, Scale)]

\* DOD = 1 - SOC
DepthOfDischarge_of_unit(SOC) == [i \in DOMAIN SOC |-> SOC[i]]
DepthOfDischarge(SOC) == [i \in DOMAIN SOC |-> FSub(Scale, SOC[i])]

\* T_cell[T_cell<272.65] = 272.65 ; T_cell[T_cell>322.65] = 322.65
T_cell_min == 272650
T_cell_max == 322650
ClampT_cell_floor_only(T_cell) ==
  [i \in DOMAIN T_cell |-> IF FLt(T_cell[i], T_cell_min) THEN T_cell_min ELSE T_cell[i]]
ClampT_cell(T_cell) == [i \in DOMAIN T_cell |-> Clamp(T_cell[i], T_cell_min, T_cell_max)]

\* I_cell[I_cell<0.0] = 0.0 ; I_cell[I_cell>8.0] = 8.0
I_cell_max == 8000
ClampI_cell(I_cell) == [i \in DOMAIN I_cell |-> Clamp(I_cell[i], 0, I_cell_max)]

\* eqn 10, D. Jeon: the entropy coefficient, a sixth-degree polynomial in SOC
\* (the powers of SOC are taken by Horner's rule, which keeps three decimals
\* of every term)
delta_S(s) ==
  FAdd(FMul(FAdd(FMul(FAdd(FMul(FAdd(FMul(FAdd(FMul(FAdd(FMul(
    -496660, s), 1729400), s), -2278000), s), 1382200), s), -380470), s), 46508), s),
    -10692)

\* np.isnan(E_bat).any() handling of the integrated energy
SanitizeE_bat(E_bat) ==
  IF AnyNaN(E_bat)                                           \* np.isnan(E_bat).any()
  THEN LET filled == [i \in DOMAIN E_bat |-> FMul(Scale, np_max(E_bat))]
           \* np.ones_like(E_bat)*np.max(E_bat)
           any == \E i \in DOMAIN filled : filled[i] # 0     \* E_bat.any(): a bool
       IN  IF isnan(BoolAsFloat(any))                         \* np.isnan(E_bat.any())
           THEN [i \in DOMAIN E_bat |-> 0]                    \* np.zeros_like(E_bat)
           ELSE filled
  ELSE E_bat

\* E_current = E_bat + E_current[0] ; E_current[E_current>E_max] = E_max
EnergyUpdate_from_max(E_bat, E_current, E_max) ==
  [i \in DOMAIN E_bat |->
    LET e == FAdd(E_bat[i], E_max) IN IF FGt(e, E_max) THEN E_max ELSE e]
EnergyUpdate(E_bat, E_current, E_max) ==
  [i \in DOMAIN E_bat |->
    LET e == FAdd(E_bat[i], E_current[1]) IN IF FGt(e, E_max) THEN E_max ELSE e]

\* sigma, n and F of the heat model
sigma == 139
n_electrons == 1
F_faraday == 96485

\* the heat generated by one cell, [W], from the current density and the
\* (clamped) cell temperature
HeatGeneration(I_cell, T_cell, SOC_old, electrode_area, As_cell) ==
  [i \in DOMAIN I_cell |->
    LET i_cell        == FDiv(I_cell[i], electrode_area)
        q_dot_entropy == FDivInt(FMul(FMul(FNeg(T_cell[i]), delta_S(SOC_old[i])), i_cell),
                                 n_electrons * F_faraday)
        q_dot_joule   == FDivInt(FMul(i_cell, i_cell), sigma)
    IN  FMul(FAdd(q_dot_joule, q_dot_entropy), As_cell)]

\* n_total == 1: the lumped model
LumpedNetPower(bat, Q_heat_gen, T_cell, n_total) ==
  [i \in DOMAIN Q_heat_gen |->
    LET Q_convec == FMul(FMul(bat.heat_transfer_coefficient, bat.cell.surface_area),
                         FSub(T_cell[i], bat.ambient_temperature[i]))
        P_net    == FSub(Q_heat_gen[i], Q_convec)
    IN  FScale(P_net, n_total)]

\* pi, and the offset 272.65 the code subtracts to get degrees Celsius
np_pi == 3142
Celsius_offset == 272650

\* the correlation constants <<C, m>> of the cylinder bank
BankConstants(Re_max, S_T, S_L) ==
  LET all == \A i \in DOMAIN Re_max : Re_max[i] # 0     \* all(Re_max): a bool
  IN  IF FGt(BoolAsFloat(all), 1000 * Scale)           \* all(Re_max) > 10E2
      THEN <<FMul(350, pow(FDiv(S_T, S_L), 200)), 600>>
      ELSE <<510, 500>>

\* n_total > 1: the bank of cylinders in cross flow (Incropera, chapter 7)
BankNetPower(bat, Q_heat_gen, T_current, n_total_module) ==
  LET S_T     == bat.module_config.normal_spacing
      S_L     == bat.module_config.parallel_spacing
      K_air   == bat.cooling_fluid.thermal_conductivity
      Cp_air  == bat.cooling_fluid.specific_heat_capacity
      V_air   == bat.cooling_fluid.discharge_air_cooling_flowspeed
      rho_air == bat.cooling_fluid.density
      D_cell  == bat.cell.diameter
      H_cell  == bat.cell.height
      Nn      == bat.module_config.normal_count
      T_ambient == bat.ambient_temperature
      S_D     == sqrt(FAdd(FMul(S_T, S_T), FMul(S_L, S_L)))
      V_max   == IF FLt(FScale(FSub(S_D, D_cell), 2), FSub(S_T, D_cell))
                 THEN FMul(V_air, FDiv(S_T, FScale(FSub(S_D, D_cell), 2)))
                 ELSE FMul(V_air, FDiv(S_T, FSub(S_T, D_cell)))
      T       == [i \in DOMAIN T_current |-> FDivInt(FAdd(T_ambient[i], T_current[i]), 2)]
      nu_air  == [i \in DOMAIN T_current |-> nu_fit(FSub(T_ambient[i], Celsius_offset))]
      Re_max  == [i \in DOMAIN T_current |-> FDiv(FMul(V_max, D_cell), nu_air[i])]
      Pr      == [i \in DOMAIN T_current |-> Pr_fit(FSub(T_ambient[i], Celsius_offset))]
      Prw     == [i \in DOMAIN T_current |-> Pr_fit(FSub(T[i], Celsius_offset))]
      Cm      == BankConstants(Re_max, S_T, S_L)
  IN  [i \in DOMAIN Q_heat_gen |->
        LET Nu    == FMul(FMul(FMul(Cm[1], pow(Re_max[i], Cm[2])), pow(Pr[i], 360)),
                          pow(FDiv(Pr[i], Prw[i]), 250))
            h     == FDiv(FMul(Nu, K_air), D_cell)
            Tw_Ti == FSub(T[i], T_ambient[i])
            Tw_To == FMul(Tw_Ti,
                       exp(FDiv(FMul(FScale(FMul(FNeg(np_pi), D_cell), n_total_module), h),
                                FMul(FMul(FScale(FMul(rho_air, V_air), Nn), S_T), Cp_air))))
            dT_lm == FDiv(FSub(Tw_Ti, Tw_To), log(FDiv(Tw_Ti, Tw_To)))
            Q_convec == FMul(FScale(FMul(FMul(FMul(FMul(h, np_pi), D_cell), H_cell), 800),
                                    n_total_module), dT_lm)
        IN  FSub(FScale(Q_heat_gen[i], n_total_module), Q_convec)]

\* V_oc = V_ul + V_Th + (I_cell * R_0_aged)
OpenCircuitVoltage_no_ohmic(V_ul, V_Th, I_cell, R_0_aged) ==
  [i \in DOMAIN V_ul |-> FAdd(V_ul[i], V_Th[i])]
OpenCircuitVoltage(V_ul, V_Th, I_cell, R_0_aged) ==
  [i \in DOMAIN V_ul |-> FAdd(FAdd(V_ul[i], V_Th[i]), FMul(I_cell[i], R_0_aged[i]))]

\* the charge throughput, [Ah]: <<Q_total, Q_segment>>
ChargeThroughput_from_zero(Q_prior, I_cell, t) ==
  LET cum == [k \in 1..(Len(t) - 1) |-> FDivInt(cumtrapz(I_cell, t, k), Units_hr)]
  IN  << [i \in DOMAIN t |-> IF i = 1 THEN 0 ELSE cum[i - 1]],
         [i \in DOMAIN t |-> IF i = 1 THEN 0 ELSE cum[i - 1]] >>
ChargeThroughput(Q_prior, I_cell, t) ==
  LET cum == [k \in 1..(Len(t) - 1) |-> FDivInt(cumtrapz(I_cell, t, k), Units_hr)]
  IN  << [i \in DOMAIN t |-> IF i = 1 THEN Q_prior[1] ELSE FAdd(Q_prior[1], cum[i - 1])],
         [i \in DOMAIN t |-> IF i = 1 THEN 0 ELSE cum[i - 1]] >>

\* LiNiMnCo_charge(battery, numerics): the battery object after the call, and
\* the locals of the call
LiNiMnCo_charge(bat, nmr) ==
  LET \* Unpack variables
      I_bat           == bat.inputs.current
      P_bat           == bat.inputs.power_in
      cell_mass       == bat.cell.mass
      electrode_area  == bat.cell.electrode_area
      Cp              == bat.cell.specific_heat_capacity
      As_cell         == bat.cell.surface_area
      V_th0           == bat.initial_thevenin_voltage
      T_current       == bat.temperature
      E_max           == bat.max_energy
      R_growth_factor == bat.R_growth_factor
      E_current       == bat.current_energy
      Q_prior         == bat.charge_throughput
      I               == nmr.integrate
      \* the current going into one cell
      n_series        == bat.pack_config.series
      n_parallel      == bat.pack_config.parallel
      n_total         == n_series * n_parallel
      Nn              == bat.module_config.normal_count
      Np              == bat.module_config.parallel_count
      n_total_module  == Nn * Np
      I_cell_raw      == [i \in DOMAIN I_bat |-> FDivInt(FNeg(I_bat[i]), n_parallel)]
      \* State of charge of the battery
      I_P_bat         == dot(I, P_bat)
      initial_discharge_state == [i \in DOMAIN P_bat |-> FAdd(I_P_bat[i], E_current[1])]
      SOC_old         == ClampSOC([i \in DOMAIN P_bat |-> FDiv(initial_discharge_state[i], E_max)])
      DOD_old         == DepthOfDischarge(SOC_old)
      T_cell          == ClampT_cell(bat.cell_temperature)      \* clamped in place
      \* the cell temperature
      Q_heat_gen      == HeatGeneration(I_cell_raw, T_cell, SOC_old, electrode_area, As_cell)
      P_net           == IF n_total = 1
                         THEN LumpedNetPower(bat, Q_heat_gen, T_cell, n_total)
                         ELSE BankNetPower(bat, Q_heat_gen, T_current, n_total_module)
      dT_dt           == [i \in DOMAIN P_net |->
                           FDiv(P_net[i], FMul(FScale(cell_mass, n_total_module), Cp))]
      I_dT_dt         == dot(I, dT_dt)
      T_new           == [i \in DOMAIN P_net |-> FAdd(T_current[1], I_dT_dt[i])]
      \* Power going into the battery accounting for resistance losses
      P_loss          == [i \in DOMAIN Q_heat_gen |-> FScale(Q_heat_gen[i], n_total)]
      P               == [i \in DOMAIN P_bat |-> FSub(P_bat[i], FAbs(P_loss[i]))]
      I_cell          == ClampI_cell(I_cell_raw)
      \* the response surface of the battery data sheet
      T_cell_Celcius  == [i \in DOMAIN T_cell |-> FSub(T_cell[i], Celsius_offset)]
      pts             == [i \in DOMAIN I_cell |-> <<I_cell[i], T_cell_Celcius[i], DOD_old[i]>>]
      V_ul_map        == [i \in DOMAIN pts |-> Voltage(pts[i])]
      \* Thevenin time constant, resistance, capacitance; internal resistance
      tau_Th          == [i \in DOMAIN SOC_old |->
                           FAdd(FMul(2151, exp(FMul(2132, SOC_old[i]))), 27200)]
      R_Th            == [i \in DOMAIN SOC_old |->
                           FAdd(FMul(-1212, exp(FMul(-34, SOC_old[i]))), 1258)]
      C_Th            == [i \in DOMAIN tau_Th |-> FDiv(tau_Th[i], R_Th[i])]
      R_0             == [i \in DOMAIN SOC_old |->
                           FAdd(FSub(FMul(15, FMul(SOC_old[i], SOC_old[i])), FMul(25, SOC_old[i])), 104)]
      R_0_aged        == [i \in DOMAIN R_0 |-> FMul(R_0[i], R_growth_factor)]
      \* Thevenin equivalent voltage
      V_th0_cell      == FDivInt(V_th0, n_series)
      V_Th            == compute_thevenin_votlage(V_th0_cell, I_cell, C_Th, R_Th, nmr)
      V_oc            == OpenCircuitVoltage(V_ul_map, V_Th, I_cell, R_0_aged)
      \* the updated state of the battery
      E_bat_dot       == dot(I, P)
      E_bat           == SanitizeE_bat(E_bat_dot)
      E_new           == EnergyUpdate(E_bat, E_current, E_max)
      SOC_new         == ClampSOC([i \in DOMAIN E_new |-> FDiv(E_new[i], E_max)])
      DOD_new         == DepthOfDischarge(SOC_new)
      Q               == ChargeThroughput(Q_prior, I_cell, nmr.control_points)
      \* V_ul[SOC_new < 0.] = 0.
      V_ul            == [i \in DOMAIN V_ul_map |-> IF FLt(SOC_new[i], 0) THEN 0 ELSE V_ul_map[i]]
  IN  [battery |->
        [bat EXCEPT
          !.current_energy                    = E_new,
          !.cell_temperature                  = T_new,
          !.pack_temperature                  = T_new,
          !.resistive_losses                  = P_loss,
          !.load_power                        = [i \in DOMAIN V_ul |->
                                                  FMul(FScale(V_ul[i], n_series), I_bat[i])],
          !.current                           = I_bat,
          !.voltage_open_circuit              = [i \in DOMAIN V_oc |-> FScale(V_oc[i], n_series)],
          !.cell_voltage_open_circuit         = V_oc,
          !.cell_current                      = I_cell,
          !.thevenin_voltage                  = [i \in DOMAIN V_Th |-> FScale(V_Th[i], n_series)],
          !.cumulative_cell_charge_throughput = Q[1],
          !.cell_charge_throughput            = Q[2],
          !.heat_energy_generated             = [i \in DOMAIN Q_heat_gen |->
                                                  FScale(Q_heat_gen[i], n_total_module)],
          !.internal_resistance               = [i \in DOMAIN R_0 |-> FScale(R_0[i], n_series)],
          !.state_of_charge                   = SOC_new,
          !.depth_of_discharge                = DOD_new,
          !.voltage_under_load                = [i \in DOMAIN V_ul |-> FScale(V_ul[i], n_series)],
          !.cell_voltage_under_load           = V_ul],
      locals |->
        [called    |-> TRUE,
         E_prior   |-> E_current[1],
         T_cell_in |-> bat.cell_temperature,
         T_cell    |-> T_cell,
         SOC_old   |-> SOC_old,
         DOD_old   |-> DOD_old,
         pts       |-> pts,
         P         |-> P,
         E_bat_dot |-> E_bat_dot,
         E_bat     |-> E_bat,
         R_Th      |-> R_Th,
         \* the arrays the caller passed in, as they stand before and after
         arrays_before |-> [current |-> bat.inputs.current, power_in |-> bat.inputs.power_in,
                            current_energy |-> bat.current_energy,
                            charge_throughput |-> bat.charge_throughput,
                            temperature |-> bat.temperature,
                            cell_temperature |-> bat.cell_temperature],
         arrays_after  |-> [current |-> I_bat, power_in |-> P_bat,
                            current_energy |-> E_current,
                            charge_throughput |-> Q_prior,
                            temperature |-> T_current,
                            cell_temperature |-> T_cell]]]

----------------------------------------------------------------------------
(* The objects LiNiMnCo_charge is called with *)

\* a column of N equal values, and the column <<v[1], v[2], ..., v[1], ...>>
Ones(x) == [i \in Idx |-> x]
Cycle(v) == [i \in Idx |-> v[((i - 1) % Len(v)) + 1]]

\* the spacing of the control points, [s]
TimeStep == 2000

\* numerics.time.control_points of a segment
ControlPoints(dt) == [i \in Idx |-> (i - 1) * dt]

\* numerics.time.integrate: the cumulative trapezoid operator on the control
\* points; row i maps the point values to the integral from t[1] to t[i]
IntegrateTrapezoid(dt) ==
  [i \in Idx |-> [j \in Idx |->
    IF j > i \/ i = 1 THEN 0
    ELSE IF j = 1 \/ j = i THEN dt \div 2
    ELSE dt]]

\* an operator that has overflowed in its last row
IntegrateInfRow(dt) ==
  [i \in Idx |-> [j \in Idx |-> IF i = NPts THEN PInf ELSE IntegrateTrapezoid(dt)[i][j]]]

\* an operator whose first row is not zero (a plain rectangle rule)
IntegrateRectangle(dt) == [i \in Idx |-> [j \in Idx |-> IF j > i THEN 0 ELSE dt]]

Numerics(op) == [integrate |-> op, control_points |-> ControlPoints(TimeStep)]

NumericsSet ==
  { Numerics(IntegrateTrapezoid(TimeStep)),
    Numerics(IntegrateInfRow(TimeStep)),
    Numerics(IntegrateRectangle(TimeStep)) }

\* battery.pack_config and battery.module_config with the speed of the cooling
\* air [m/s]: one cell, or a 2 x 2 pack in a slow or a fast flow
PackConfigs ==
  { [series |-> 1, parallel |-> 1, normal_count |-> 1, parallel_count |-> 1,
     flowspeed |-> 2000],
    [series |-> 2, parallel |-> 2, normal_count |-> 2, parallel_count |-> 2,
     flowspeed |-> 2000],
    [series |-> 2, parallel |-> 2, normal_count |-> 2, parallel_count |-> 2,
     flowspeed |-> 30000] }

\* battery.max_energy, [J]
E_max_model == 8000

\* the battery object as the network hands it to the model: its configuration,
\* the state carried from the previous evaluation, and the output fields
Battery(pack, E0, T0, Tcell0, Q0, Vth0) ==
  [ inputs |-> [current |-> Ones(0), power_in |-> Ones(0)],
    cell |-> [mass |-> 1000, electrode_area |-> 500, specific_heat_capacity |-> 100000,
              surface_area |-> 380, diameter |-> 200, height |-> 500],
    heat_transfer_coefficient |-> 1000,
    ambient_temperature |-> Ones(300000),
    initial_thevenin_voltage |-> Vth0,
    temperature |-> T0,
    cell_temperature |-> Tcell0,
    max_energy |-> E_max_model,
    R_growth_factor |-> 1500,
    current_energy |-> E0,
    charge_throughput |-> Q0,
    pack_config |-> [series |-> pack.series, parallel |-> pack.parallel],
    module_config |-> [normal_count |-> pack.normal_count,
                       parallel_count |-> pack.parallel_count,
                       normal_spacing |-> 300, parallel_spacing |-> 300],
    cooling_fluid |-> [thermal_conductivity |-> 25, specific_heat_capacity |-> 1000,
                       discharge_air_cooling_flowspeed |-> pack.flowspeed,
                       density |-> 1200],
    pack_temperature |-> T0,
    resistive_losses |-> Ones(0),
    load_power |-> Ones(0),
    current |-> Ones(0),
    voltage_open_circuit |-> Ones(0),
    cell_voltage_open_circuit |-> Ones(0),
    cell_current |-> Ones(0),
    thevenin_voltage |-> Ones(Vth0),
    cumulative_cell_charge_throughput |-> Q0,
    cell_charge_throughput |-> Ones(0),
    heat_energy_generated |-> Ones(0),
    internal_resistance |-> Ones(0),
    state_of_charge |-> Ones(Scale),
    depth_of_discharge |-> Ones(0),
    voltage_under_load |-> Ones(0),
    cell_voltage_under_load |-> Ones(0) ]

NoLocals ==
  [called |-> FALSE, E_prior |-> 0, T_cell_in |-> Ones(0), T_cell |-> Ones(0),
   SOC_old |-> Ones(0), DOD_old |-> Ones(0), pts |-> Ones(<<0, 0, 0>>),
   P |-> Ones(0), E_bat_dot |-> Ones(0), E_bat |-> Ones(0),
   R_Th |-> Ones(0),
   arrays_before |-> [current |-> Ones(0), power_in |-> Ones(0), current_energy |-> Ones(0),
                      charge_throughput |-> Ones(0), temperature |-> Ones(0),
                      cell_temperature |-> Ones(0)],
   arrays_after  |-> [current |-> Ones(0), power_in |-> Ones(0), current_energy |-> Ones(0),
                      charge_throughput |-> Ones(0), temperature |-> Ones(0),
                      cell_temperature |-> Ones(0)]]

\* one collocation point of a commanded load: pack current [A] and power [W]
LoadPoints ==
  { [current |-> -4000,  power |-> 3000],
    [current |-> -40000, power |-> 3000],
    [current |-> 4000,   power |-> -2000],
    [current |-> -4000,  power |-> NaN] }

Loads == [Idx -> LoadPoints]

WithInputs(bat, load) ==
  [bat EXCEPT !.inputs = [current  |-> [i \in Idx |-> load[i].current],
                          power_in |-> [i \in Idx |-> load[i].power]]]

\* prior energies, [J]: below zero, inside and above max_energy
EnergyPriors == {-2000, 2000, 10000}

\* prior temperatures, [K]: inside the band, and above, inside and below it
TemperaturePriors == { Ones(300000), Cycle(<<330000, 300000, 260000>>) }

NoThevenin == [called |-> FALSE, V_th0 |-> 0, I_cell |-> Ones(0), C_Th |-> Ones(0),
               R_Th |-> Ones(0), control_points |-> Ones(0), x |-> Ones(0)]
SolverIdle == [status |-> "idle", iteration |-> 0, unknown |-> 0, residual |-> 0]
NoSolver == SolverIdle
NoMission == [status |-> "idle", segments |-> << >>, index |-> 0, results |-> << >>,
              carry |-> [battery_energy |-> 0, temperature |-> 0, charge_throughput |-> 0],
              failed_at |-> 0, error |-> [kind |-> "none", unknown |-> 0, residual |-> 0]]

----------------------------------------------------------------------------
(* SpecCharge: one call of LiNiMnCo_charge on any prior state and any load *)

InitCharge ==
  /\ \E pack \in PackConfigs, E0 \in EnergyPriors, T0 \in TemperaturePriors :
       battery = Battery(pack, Ones(E0), T0, T0, Ones(500), 100)
  /\ numerics \in NumericsSet
  /\ locals = NoLocals
  /\ thevenin = NoThevenin
  /\ mission = NoMission
  /\ solver = NoSolver

ChargeCall ==
  /\ ~locals.called
  /\ \E load \in Loads :
       \E r \in {LiNiMnCo_charge(WithInputs(battery, load), numerics)} :
         /\ battery' = r.battery
         /\ locals' = r.locals
  /\ UNCHANGED <<numerics, thevenin, mission, solver>>

NextCharge == ChargeCall

SpecCharge == InitCharge /\ [][NextCharge]_vars

----------------------------------------------------------------------------
(* Properties of one LiNiMnCo_charge call (SpecCharge) *)

\* a number (not NaN) in [lo, hi]
Within(x, lo, hi) == ~isnan(x) /\ lo <= x /\ x <= hi

\* the largest finite element of v (only used where one exists)
FiniteMax(v) ==
  LET finite == {v[i] : i \in {k \in DOMAIN v : isfinite(v[k])}}
  IN  CHOOSE m \in finite : \A x \in finite : x <= m

\* C1: after the call every element of state_of_charge and of
\* depth_of_discharge lies in [0, 1].
C1_SocDodInUnitInterval ==
  locals.called =>
    \A i \in Idx : /\ Within(battery.state_of_charge[i], 0, Scale)
                   /\ Within(battery.depth_of_discharge[i], 0, Scale)

\* C2: after the call every element of current_energy lies in [0, max_energy].
C2_EnergyInBounds ==
  locals.called =>
    \A i \in Idx : Within(battery.current_energy[i], 0, battery.max_energy)

C4_NaNReplacedByFiniteMax ==
  (/\ locals.called
   /\ AnyNaN(locals.E_bat_dot)
   /\ \E i \in Idx : isfinite(locals.E_bat_dot[i]))
    => /\ ~AnyNaN(battery.current_energy)
       /\ \A i \in Idx : locals.E_bat[i] = FiniteMax(locals.E_bat_dot)

\* C5: when every element of the integrated energy delta is NaN, the delta
\* used is zero at every point and the returned current_energy is the prior
\* energy (clamped), with no NaN.
C5_AllNaNReplacedByZero ==
  (/\ locals.called
   /\ \A i \in Idx : isnan(locals.E_bat_dot[i]))
    => /\ \A i \in Idx : locals.E_bat[i] = 0
       /\ ~AnyNaN(battery.current_energy)
       /\ \A i \in Idx :
            battery.current_energy[i] \in
              { Clamp(locals.E_prior, locals.E_prior, battery.max_energy),
                Clamp(locals.E_prior, 0, battery.max_energy) }

\* C8: at every point the depth_of_discharge output is 1 - state_of_charge,
\* and the depth of discharge of the response-surface query is 1 minus the
\* provisional (clamped) state of charge.
C8_DodIsOneMinusSoc ==
  locals.called =>
    \A i \in Idx :
      /\ battery.depth_of_discharge[i] = FSub(Scale, battery.state_of_charge[i])
      /\ locals.pts[i][3] = FSub(Scale, locals.SOC_old[i])
      /\ ~isnan(locals.SOC_old[i]) => Within(locals.SOC_old[i], 0, Scale)

\* C8 witness: a call with a state of charge strictly inside (0, 1) at one
\* point, and a provisional state of charge that differs from the final one.
C8_Witness ==
  /\ locals.called
  /\ \E i \in Idx : /\ Within(battery.state_of_charge[i], 1, Scale - 1)
                    /\ battery.depth_of_discharge[i] = Scale - battery.state_of_charge[i]
  /\ \E i \in Idx : /\ Within(locals.SOC_old[i], 1, Scale - 1)
                    /\ locals.SOC_old[i] # battery.state_of_charge[i]

\* C12: at every point where the recomputed battery energy is negative, the
\* cell and pack voltage under load and the load power are zero.
C12_ZeroVoltageOnNegativeEnergy ==
  locals.called =>
    \A i \in Idx :
      FLt(battery.current_energy[i], 0)
        => /\ battery.cell_voltage_under_load[i] = 0
           /\ battery.voltage_under_load[i] = 0
           /\ battery.load_power[i] = 0

\* Re_max of the bank as lines 151-159 compute it from the battery's
\* configuration and ambient temperature
BankReMax(bat) ==
  LET S_T   == bat.module_config.normal_spacing
      S_L   == bat.module_config.parallel_spacing
      V_air == bat.cooling_fluid.discharge_air_cooling_flowspeed
      D     == bat.cell.diameter
      S_D   == sqrt(FAdd(FMul(S_T, S_T), FMul(S_L, S_L)))
      V_max == IF FLt(FScale(FSub(S_D, D), 2), FSub(S_T, D))
               THEN FMul(V_air, FDiv(S_T, FScale(FSub(S_D, D), 2)))
               ELSE FMul(V_air, FDiv(S_T, FSub(S_T, D)))
  IN  [i \in Idx |->
        FDiv(FMul(V_max, D), nu_fit(FSub(bat.ambient_temperature[i], Celsius_offset)))]

\* C13: in the multi-cell branch the correlation constants are the turbulent
\* ones, C = 0.35*(S_T/S_L)^0.2 and m = 0.6, when Re_max exceeds 1000 at every
\* point, and the laminar ones, C = 0.51 and m = 0.5, otherwise.
C13_ReynoldsThresholdSelectsConstants ==
  (locals.called /\ battery.pack_config.series * battery.pack_config.parallel > 1)
    => LET S_T == battery.module_config.normal_spacing
           S_L == battery.module_config.parallel_spacing
           Re  == BankReMax(battery)
           Cm  == BankConstants(Re, S_T, S_L)
       IN  IF \A i \in Idx : FGt(Re[i], 1000 * Scale)
           THEN Cm = <<FMul(350, pow(FDiv(S_T, S_L), 200)), 600>>
           ELSE Cm = <<510, 500>>

\* the per-cell terms of the voltage at point i, read back from the outputs:
\* the response-surface sample at the query point, the cell Thevenin voltage,
\* and the ohmic drop I_cell * R_0 * R_growth_factor
SurfaceSample(i) == Voltage(locals.pts[i])
CellTheveninVoltage(i) == FDivInt(battery.thevenin_voltage[i], battery.pack_config.series)
OhmicDrop(i) ==
  FMul(battery.cell_current[i],
       FMul(FDivInt(battery.internal_resistance[i], battery.pack_config.series),
            battery.R_growth_factor))

InternalResistanceFit(SOC) ==
  FAdd(FSub(FMul(15, FMul(SOC, SOC)), FMul(25, SOC)), 104)
TheveninResistanceFit(SOC) ==
  FAdd(FMul(-1212, exp(FMul(-34, SOC))), 1258)

\* C15: the ohmic resistance in the voltage computation and the reported
\* battery.internal_resistance are the state-of-charge fit multiplied by
\* R_growth_factor (the reported one also by the series-cell count), and the
\* Thevenin resistance is its fit multiplied by the same factor.
C15_ResistancesScaledByGrowthFactor ==
  locals.called =>
    \A i \in Idx :
      LET R_0_aged == FMul(InternalResistanceFit(locals.SOC_old[i]), battery.R_growth_factor)
      IN  /\ battery.cell_voltage_open_circuit[i] =
                FAdd(FAdd(SurfaceSample(i), CellTheveninVoltage(i)),
                     FMul(battery.cell_current[i], R_0_aged))
          /\ battery.internal_resistance[i] = FScale(R_0_aged, battery.pack_config.series)
          /\ locals.R_Th[i] =
                FMul(TheveninResistanceFit(locals.SOC_old[i]), battery.R_growth_factor)

\* C16: every query point of the performance map is (a cell current in
\* [0, 8] A, the clamped cell temperature in degrees Celsius, a depth of
\* discharge in [0, 1]), whatever the inputs are.
C16_QueryPointInBox ==
  locals.called =>
    \A i \in Idx :
      /\ Within(locals.pts[i][1], 0, I_cell_max)
      /\ locals.pts[i][2] =
           FSub(Clamp(locals.T_cell_in[i], T_cell_min, T_cell_max), 273150)
      /\ Within(locals.pts[i][3], 0, Scale)

\* the first row of the integration operator is zero
FirstRowZero == \A j \in Idx : numerics.integrate[1][j] = 0

\* C17: when the first row of the integration operator is zero and the energy
\* read is at most max_energy, the first element of current_energy written is
\* the energy read and the first element of the pack thevenin_voltage written
\* is the initial_thevenin_voltage read.
C17_InitialPointAnchored ==
  (locals.called /\ FirstRowZero /\ locals.E_prior <= battery.max_energy)
    => /\ battery.current_energy[1] = locals.E_prior
       /\ battery.thevenin_voltage[1] = battery.initial_thevenin_voltage

\* C18: the cumulative charge throughput starts at the prior throughput
\* Q_prior[0], does not decrease along the collocation points, and at every
\* point is Q_prior[0] plus cell_charge_throughput, whose first element is 0.
C18_ChargeThroughputBookkeeping ==
  locals.called =>
    LET Q_total   == battery.cumulative_cell_charge_throughput
        Q_segment == battery.cell_charge_throughput
        Q_prior   == battery.charge_throughput
    IN  /\ Q_total[1] = Q_prior[1]
        /\ Q_segment[1] = 0
        /\ \A i \in Idx : Q_total[i] = FAdd(Q_prior[1], Q_segment[i])
        /\ \A i \in 1..(NPts - 1) :
             /\ isfinite(Q_total[i]) /\ isfinite(Q_total[i + 1])
             /\ Q_total[i] <= Q_total[i + 1]

\* C18 witness: a call with a prior throughput that is not zero, a commanded
\* current of the charging sign at some point (clamped to a cell current of
\* zero) and a throughput that has grown by the last point.
C18_Witness ==
  /\ locals.called
  /\ battery.charge_throughput[1] > 0
  /\ \E i \in Idx : battery.inputs.current[i] > 0 /\ battery.cell_current[i] = 0
  /\ battery.cumulative_cell_charge_throughput[NPts]
       > battery.cumulative_cell_charge_throughput[1]
  /\ battery.cell_charge_throughput[NPts] > 0

\* C19: the arrays the call receives (inputs.current, inputs.power_in, the
\* prior current_energy, charge_throughput, temperature and cell_temperature)
\* hold the same values after the call as before it.
C19_InputsNotModified ==
  locals.called => locals.arrays_after = locals.arrays_before

----------------------------------------------------------------------------
(* SpecThevenin: one direct call of compute_thevenin_votlage with a constant
   cell current and fixed R_Th, C_Th *)

\* initial Thevenin voltages [V], cell currents [A], <<R_Th [Ohm], C_Th [F]>>
\* circuits, and segment lengths in time constants R_Th*C_Th
TheveninV0 == {0, 500, 1000}
TheveninCurrents == {1000, 2000, 4000, 8000}
TheveninCircuits == {<<500, 4000>>, <<250, 4000>>, <<1000, 2000>>, <<100, 10000>>}
TheveninSpans == {5, 6, 8}

\* N control points evenly spaced over span time constants
SpanPoints(span, tau) == [i \in Idx |-> ((i - 1) * span * tau) \div (NPts - 1)]

InitThevenin ==
  /\ battery = Battery(CHOOSE pk \in PackConfigs : pk.series = 1,
                       Ones(E_max_model), Ones(300000), Ones(300000), Ones(0), 0)
  /\ numerics = Numerics(IntegrateTrapezoid(TimeStep))
  /\ locals = NoLocals
  /\ thevenin = NoThevenin
  /\ mission = NoMission
  /\ solver = NoSolver

TheveninCall ==
  /\ ~thevenin.called
  /\ \E V_th0 \in TheveninV0, I_c \in TheveninCurrents, rc \in TheveninCircuits,
        span \in TheveninSpans :
       LET t == SpanPoints(span, FMul(rc[1], rc[2]))
       IN  thevenin' =
             [called |-> TRUE, V_th0 |-> V_th0, I_cell |-> Ones(I_c), C_Th |-> Ones(rc[2]),
              R_Th |-> Ones(rc[1]), control_points |-> t,
              x |-> compute_thevenin_votlage(V_th0, Ones(I_c), Ones(rc[2]), Ones(rc[1]),
                                             [control_points |-> t])]
  /\ UNCHANGED <<battery, numerics, locals, mission, solver>>

NextThevenin == TheveninCall

SpecThevenin == InitThevenin /\ [][NextThevenin]_vars

\* the closed-form first-order RC solution at the last control point
TheveninClosedForm ==
  LET t    == thevenin.control_points
      R    == thevenin.R_Th[NPts]
      V_ss == FMul(thevenin.I_cell[NPts], R)
      tau  == FMul(R, thevenin.C_Th[NPts])
  IN  V_ss + FMul(thevenin.V_th0 - V_ss, exp(-FDiv(t[NPts] - t[1], tau)))

\* C7: for a constant current and fixed R_Th, C_Th over control points that
\* span at least 5 time constants, the Thevenin voltage returned at the last
\* control point is within 1% of the closed-form RC solution there (and so
\* within 2% of the steady state I*R, which the closed form has approached to
\* e^-5).
C7_TheveninSteadyState ==
  LET t    == thevenin.control_points
      V_ss == FMul(thevenin.I_cell[NPts], thevenin.R_Th[NPts])
      tau  == FMul(thevenin.R_Th[NPts], thevenin.C_Th[NPts])
  IN  (thevenin.called /\ t[NPts] - t[1] >= 5 * tau)
        => /\ 100 * Abs(thevenin.x[NPts] - TheveninClosedForm) <= Abs(TheveninClosedForm)
           /\ 100 * Abs(thevenin.x[NPts] - V_ss) <= 2 * Abs(V_ss)

\* the closed-form first-order RC solution at control point i
TheveninStateAt(i) ==
  LET t    == thevenin.control_points
      V_ss == FMul(thevenin.I_cell[i], thevenin.R_Th[i])
      tau  == FMul(thevenin.R_Th[i], thevenin.C_Th[i])
  IN  V_ss + FMul(thevenin.V_th0 - V_ss, exp(-FDiv(t[i] - t[1], tau)))

\* C11: x[0] is V_th0 and, for a constant current and fixed R_Th, C_Th, every
\* x[i] with i >= 1 is the state of the ODE at time t[i], reached by
\* integrating forward from t[0] through the earlier points.
C11_ForwardIntegration ==
  thevenin.called =>
    /\ thevenin.x[1] = thevenin.V_th0
    /\ \A i \in 2..NPts : thevenin.x[i] = TheveninStateAt(i)

----------------------------------------------------------------------------
(* Spec: a mission of NumSegments segments solved in order, each by the
   segment solver iterating an unknown throttle level around LiNiMnCo_charge *)

NumSegments == 2
IterationCap == 3

\* a segment's configuration: the throttle level at which its residual is
\* zero; an inconsistent configuration, whose residual has no zero; a fault of
\* the propulsion collaborator, which then returns a NaN power draw
SegmentConfigs ==
  { [demand |-> 1, inconsistent |-> FALSE, fault |-> FALSE],
    [demand |-> 3, inconsistent |-> FALSE, fault |-> FALSE],
    [demand |-> 2, inconsistent |-> TRUE,  fault |-> FALSE],
    [demand |-> 1, inconsistent |-> FALSE, fault |-> TRUE] }

\* segment.battery_energy values given to the first segment, [J]
MissionEnergies == {E_max_model, 7600}

\* the pack temperature at the start of the mission, [K]
MissionTemperature == 305000

\* mission_setup: only the first segment is given a battery energy
MissionSetup(configs, E0) ==
  [i \in 1..NumSegments |->
    [tag |-> i, demand |-> configs[i].demand, inconsistent |-> configs[i].inconsistent,
     fault |-> configs[i].fault, battery_energy_given |-> (i = 1),
     battery_energy |-> IF i = 1 THEN E0 ELSE 0]]

\* the discharge the propulsion network draws from the pack at throttle level u
ThrottleLoad(seg, u) ==
  [i \in Idx |-> [current |-> -2000 * u,
                  power   |-> IF seg.fault THEN NaN ELSE -500 * u]]

\* the segment's residual at unknown u
Residual(seg, u) ==
  IF seg.inconsistent THEN Abs(seg.demand - u) + 1 ELSE seg.demand - u

\* the solver's convergence test and its update of the unknown
Converged_always(residual) == TRUE
Converged(residual) == residual = 0

NextUnknown(u, residual) == u + Sign(residual)

\* no NaN or infinity in the expanded battery state
StateFinite(bat) ==
  \A i \in Idx : /\ isfinite(bat.current_energy[i])
                 /\ isfinite(bat.pack_temperature[i])
                 /\ isfinite(bat.state_of_charge[i])
                 /\ isfinite(bat.voltage_open_circuit[i])

\* the battery energy a segment starts from: its own if it was given one,
\* otherwise the final energy of the segment before it
InitialBatteryEnergy(m) ==
  LET seg == m.segments[m.index]
  IN  IF seg.battery_energy_given THEN seg.battery_energy ELSE m.carry.battery_energy

\* the conditions of one iteration become the battery's prior state of the next
PackConditions(bat) ==
  [bat EXCEPT !.temperature       = bat.pack_temperature,
              !.charge_throughput = bat.cumulative_cell_charge_throughput]

\* the sequencer on a converged segment, and on a failed one
OnSegmentSolved(m, bat, slv) ==
  [m EXCEPT
    !.results = Append(@, [tag |-> m.segments[m.index].tag,
                           battery_energy |-> bat.current_energy,
                           unknown |-> slv.unknown, residual |-> slv.residual,
                           iterations |-> slv.iteration]),
    !.carry   = [battery_energy    |-> bat.current_energy[NPts],
                 temperature       |-> bat.pack_temperature[NPts],
                 charge_throughput |-> bat.cumulative_cell_charge_throughput[NPts]],
    !.index   = @ + 1,
    !.status  = IF m.index = NumSegments THEN "complete" ELSE "running"]

OnSegmentFailure_continue(m, slv) ==
  [m EXCEPT !.failed_at = IF @ = 0 THEN m.index ELSE @,
            !.error = [kind |-> slv.status, unknown |-> slv.unknown, residual |-> slv.residual],
            !.index = @ + 1,
            !.status = IF m.index = NumSegments THEN "complete" ELSE "running"]
OnSegmentFailure(m, slv) ==
  [m EXCEPT !.failed_at = m.index,
            !.error = [kind |-> slv.status, unknown |-> slv.unknown, residual |-> slv.residual],
            !.status = "aborted"]

Init ==
  /\ \E pack \in PackConfigs :
       battery = Battery(pack, Ones(E_max_model), Ones(MissionTemperature),
                         Ones(MissionTemperature), Ones(0), 0)
  /\ numerics = Numerics(IntegrateTrapezoid(TimeStep))
  /\ locals = NoLocals
  /\ thevenin = NoThevenin
  /\ \E configs \in [1..NumSegments -> SegmentConfigs], E0 \in MissionEnergies :
       mission = [NoMission EXCEPT !.status = "running",
                                   !.segments = MissionSetup(configs, E0),
                                   !.index = 1,
                                   !.carry = [battery_energy    |-> E_max_model,
                                              temperature       |-> MissionTemperature,
                                              charge_throughput |-> 0]]
  /\ solver = SolverIdle

\* the sequencer takes the next segment and sets its initial conditions
StartSegment ==
  /\ mission.status = "running"
  /\ solver.status = "idle"
  /\ mission.index <= NumSegments
  /\ battery' = [battery EXCEPT
                   !.current_energy    = Ones(InitialBatteryEnergy(mission)),
                   !.temperature       = Ones(mission.carry.temperature),
                   !.pack_temperature  = Ones(mission.carry.temperature),
                   !.cell_temperature  = Ones(mission.carry.temperature),
                   !.charge_throughput = Ones(mission.carry.charge_throughput)]
  /\ solver' = [status |-> "iterating", iteration |-> 0, unknown |-> 1, residual |-> 0]
  /\ UNCHANGED <<numerics, locals, thevenin, mission>>

\* one solver iteration: expand the state at the current unknown, evaluate the
\* residual, then stop on a non-finite state, stop on convergence, or update
Iterate ==
  /\ solver.status = "iterating"
  /\ solver.iteration < IterationCap
  /\ LET seg == mission.segments[mission.index]
         u   == solver.unknown
         res == Residual(seg, u)
     IN  \E r \in {LiNiMnCo_charge(WithInputs(battery, ThrottleLoad(seg, u)), numerics)} :
           /\ battery' = PackConditions(r.battery)
           /\ locals' = r.locals
           /\ solver' =
                [status    |-> IF ~StateFinite(r.battery) THEN "numerical_error"
                               ELSE IF Converged(res) THEN "converged"
                               ELSE "iterating",
                 iteration |-> solver.iteration + 1,
                 unknown   |-> IF StateFinite(r.battery) /\ ~Converged(res)
                               THEN NextUnknown(u, res) ELSE u,
                 residual  |-> res]
  /\ UNCHANGED <<numerics, thevenin, mission>>

\* the iteration cap is exhausted without convergence
RaiseConvergenceError ==
  /\ solver.status = "iterating"
  /\ solver.iteration >= IterationCap
  /\ solver' = [solver EXCEPT !.status = "convergence_error"]
  /\ UNCHANGED <<battery, numerics, locals, thevenin, mission>>

\* the sequencer records a solved segment and carries its final state on
FinishSegment ==
  /\ mission.status = "running"
  /\ solver.status = "converged"
  /\ mission' = OnSegmentSolved(mission, battery, solver)
  /\ solver' = SolverIdle
  /\ UNCHANGED <<battery, numerics, locals, thevenin>>

\* the sequencer receives a failed segment solve
AbortMission ==
  /\ mission.status = "running"
  /\ solver.status \in {"convergence_error", "numerical_error"}
  /\ mission' = OnSegmentFailure(mission, solver)
  /\ solver' = SolverIdle
  /\ UNCHANGED <<battery, numerics, locals, thevenin>>

Next ==
  \/ StartSegment
  \/ Iterate
  \/ RaiseConvergenceError
  \/ FinishSegment
  \/ AbortMission

Spec == Init /\ [][Next]_vars

\* a step of the solver loop (Iterate or RaiseConvergenceError), told by what
\* it does to the solver: from "iterating" the solver record changes
SolverRecords ==
  [status : {"iterating", "converged", "convergence_error", "numerical_error"},
   iteration : 0..IterationCap, unknown : 0..(IterationCap + 1),
   residual : (0 - IterationCap - 3)..(IterationCap + 3)]

SolverStep ==
  /\ solver.status = "iterating"
  /\ solver' \in SolverRecords
  /\ solver' # solver

\* the solve is one synchronous loop: while it is iterating, it takes its
\* next step
FairSpec == Spec /\ WF_solver(SolverStep)

----------------------------------------------------------------------------
(* Properties of the mission (Spec, FairSpec) *)

\* C6: in a mission where only the first segment is given a battery energy,
\* the current_energy at the first collocation point of every solved segment
\* after the first equals the current_energy at the last collocation point of
\* the segment before it (so it is not reset to max_energy in between).
C6_BatteryEnergyChained ==
  \A k \in 1..(Len(mission.results) - 1) :
    mission.results[k + 1].battery_energy[1] = mission.results[k].battery_energy[NPts]

\* two segments solved, the first of which ended below max_energy
C6_Witness ==
  /\ Len(mission.results) >= 2
  /\ ~mission.segments[2].battery_energy_given
  /\ mission.results[1].battery_energy[NPts] < E_max_model
  /\ mission.results[2].battery_energy[NPts] < mission.results[2].battery_energy[1]

InconsistentBeingSolved ==
  /\ solver.status = "iterating"
  /\ mission.segments[mission.index].inconsistent

\* C9: the solve of a segment whose residual has no zero never runs more
\* than IterationCap iterations and ends in a Convergence error; a solve that
\* is reported converged has a zero residual at its unknown.
C9_NonConvergenceReported ==
  /\ [](solver.iteration <= IterationCap)
  /\ [](solver.status = "converged"
          => /\ ~mission.segments[mission.index].inconsistent
             /\ Residual(mission.segments[mission.index], solver.unknown) = 0)
  /\ (InconsistentBeingSolved ~> solver.status = "convergence_error")

\* an inconsistent segment has used up the iteration cap and is reported
C9_Witness ==
  /\ solver.status = "convergence_error"
  /\ mission.segments[mission.index].inconsistent
  /\ solver.iteration = IterationCap
  /\ solver.residual # 0

\* C10: the solved segments are exactly the segments before the current one,
\* in declared order; once the solve of segment i has failed the mission is
\* aborted, only the segments before i are solved, and the mission is never
\* complete; a complete mission has every segment solved.
C10_AbortOnFirstFailure ==
  /\ \A k \in 1..Len(mission.results) : mission.results[k].tag = k
  /\ mission.status \in {"running", "complete"} => Len(mission.results) = mission.index - 1
  /\ mission.failed_at # 0
       => /\ mission.status = "aborted"
          /\ mission.index = mission.failed_at
          /\ Len(mission.results) = mission.failed_at - 1
          /\ solver.status = "idle"
  /\ mission.status = "complete"
       => /\ Len(mission.results) = NumSegments
          /\ mission.failed_at = 0

\* the first segment failed while later segments were still to be solved
C10_Witness ==
  /\ mission.status = "aborted"
  /\ mission.failed_at = 1
  /\ mission.failed_at < NumSegments
  /\ mission.results = << >>

====
